---- MODULE Spec2Model ----
(***************************************************************************)
(* wileedot: a net.Listener with automatic TLS through autocert.           *)
(* The model follows src/coyote.go (the package tlslistener, lines 1-245): *)
(* New and setup, the three net.Listener methods guarded by the RWMutex,   *)
(* and the renewal goroutine with getCertInfo, shouldRenew and             *)
(* renewCertificates.  Lines 247-409 of the file hold an earlier variant   *)
(* of the package, whose renewalRoutine calls renewCertificates on every   *)
(* tick of a two-month ticker; the model follows the first.                *)
(* The autocert manager, the TLS listener below the                        *)
(* facade and the clock are the environment: their results are chosen      *)
(* nondeterministically among what their contracts allow.                  *)
(***************************************************************************)
EXTENDS Integers, Sequences, FiniteSets, TLC

\* Number of goroutines calling Accept, Close and Addr on the facade.
NumThreads == 2
Threads == 1..NumThreads
\* Identity of the renewal goroutine as a holder of the lock.
RenewalId == NumThreads + 1

---------------------------------------------------------------------------
\* Errors are chains of messages, outermost first; the nil error is empty.
NoErr == <<>>
ErrorsNew(msg) == <<msg>>
ErrorsWrap(err, msg) == <<msg>> \o err

ErrDomainRequired == ErrorsNew("domain is required")
ErrCertDirRequired == ErrorsNew("certificate directory is required")
ErrListenerClosed == ErrorsNew("listener is closed")
ErrManagerNotInitialized == ErrorsNew("cert manager is not initialized")
\* Errors of the environment.
ErrBind == ErrorsNew("listen tcp :443: bind: address already in use")
ErrUseOfClosed == ErrorsNew("use of closed network connection")
ErrAcceptTemporary == ErrorsNew("accept: too many open files")
ErrUnderlyingClose == ErrorsNew("close: input/output error")
ErrAcme == ErrorsNew("acme: rate limited")
ErrParse == ErrorsNew("x509: malformed certificate")

\* Configurations handed to New.
Domains == {"", "example.com"}
CertDirs == {"", "/certs"}
Emails == {"admin@example.com"}
AllowedDomainsChoices == {<<>>, <<"www.example.com">>}
BaseListeners == {"nil", "base"}
Configs ==
  [Domain : Domains, AllowedDomains : AllowedDomainsChoices, CertDir : CertDirs,
   Email : Emails, BaseListener : BaseListeners]

NilConfig ==
  [Domain |-> "", AllowedDomains |-> <<>>, CertDir |-> "", Email |-> "",
   BaseListener |-> "nil"]

\* The zero TLSListener and the nil *autocert.Manager.
NilManager == [present |-> FALSE, Cache |-> "", Email |-> "", HostPolicy |-> {}]
NilTLSListener ==
  [listener |-> "nil", certManager |-> NilManager, domain |-> "", certDir |-> "",
   email |-> "", allowedDomains |-> <<>>]

\* A value returned to a caller: (net.Conn | net.Addr | nothing, error).
Result(val, err) == [val |-> val, err |-> err]
NoResult == Result("nil", NoErr)

SeqToSet(s) == {s[i] : i \in 1..Len(s)}

VARIABLES
  cfg,      \* the Config of the New call
  npc,      \* position of the New call
  newRet,   \* what New returned: [tl : BOOLEAN, err : error]
  tl,       \* the fields of the TLSListener
  ul,       \* the listener below the facade (tls.Listen / tls.NewListener)
  mu,       \* tl.mu: readers, the writer that announced itself, whether it holds
  pc,       \* position of each calling goroutine
  op,       \* the method a calling goroutine runs or last ran
  loc,      \* Accept's local variable listener
  ret,      \* the value a call returns
  aft,      \* whether the call started after some Close had returned
  hist,     \* history of Close calls
  rpc,      \* position of the renewal goroutine
  rloc,     \* locals of the renewal goroutine
  tick      \* bookkeeping of the current period tick

vars == <<cfg, npc, newRet, tl, ul, mu, pc, op, loc, ret, aft, hist, rpc, rloc, tick>>

newVars == <<cfg, npc, newRet>>
callVars == <<pc, op, loc, ret, aft>>
renewVars == <<rpc, rloc, tick>>

---------------------------------------------------------------------------
\* time.Time in whole days; day 0 is 1 January of year 0, and the years of
\* the model have 365 days.
MonthDays == <<31, 28, 31, 30, 31, 30, 31, 31, 30, 31, 30, 31>>

RECURSIVE DaysBefore(_)
DaysBefore(m) == IF m <= 1 THEN 0 ELSE DaysBefore(m - 1) + MonthDays[m - 1]

YearOf(n) == n \div 365
MonthOf(n) == CHOOSE m \in 1..12 : DaysBefore(m) <= n % 365 /\ n % 365 < DaysBefore(m) + MonthDays[m]
DayOf(n) == (n % 365) - DaysBefore(MonthOf(n)) + 1

\* time.Date: the month is brought into 1..12 with a carry into the year,
\* and a day beyond the month's end runs over into the next month.
Date(y, m, d) ==
  LET m0 == m - 1
      yy == y + (m0 \div 12)
      mm == (m0 % 12) + 1
  IN 365 * yy + DaysBefore(mm) + d - 1

\* Time.AddDate
AddDate(n, years, months, days) ==
  Date(YearOf(n) + years, MonthOf(n) + months, DayOf(n) + days)

\* The instants time.Now() returns in the model: 30 April and 1 September
\* of year 1.
Nows == {Date(1, 4, 30), Date(1, 9, 1)}

\* The certificates the manager may hold at an instant, as <<age, validity>>
\* in days.
CertShapes == {<<20, 30>>, <<59, 90>>, <<61, 90>>, <<80, 90>>}
CertificatesAt(now) ==
  {[NotBefore |-> now - s[1], NotAfter |-> now - s[1] + s[2]] : s \in CertShapes}

NoCertInfo == [NotBefore |-> 0, NotAfter |-> 0]
NoTick == [fetches |-> 0, outcome |-> "none", now |-> 0, info |-> NoCertInfo, prev |-> "none"]

---------------------------------------------------------------------------
\* sync.RWMutex.  Writers queue on the writers' mutex (wq, its owner first);
\* the owner announces itself (w), which turns new readers away, and holds
\* the lock (held) once the readers that were inside have left.  A reader
\* that arrives while a writer is announced waits (rwait) and is let in by
\* that writer's Unlock, before the next writer announces itself.
Unlocked == [readers |-> {}, rwait |-> {}, wq |-> <<>>, w |-> {}, held |-> FALSE]

\* RLock by id makes a step unless id waits for a writer's Unlock.
RLockSteps(id) == id \notin mu.rwait
\* The step returns from RLock: id was let in by Unlock, or no writer is
\* announced; otherwise id starts to wait.
RLockPasses(id) == id \in mu.readers \/ mu.w = {}
RLock(id) ==
  IF id \in mu.readers THEN mu
  ELSE IF mu.w = {} THEN [mu EXCEPT !.readers = @ \cup {id}]
  ELSE [mu EXCEPT !.rwait = @ \cup {id}]
RUnlock(id) == [mu EXCEPT !.readers = @ \ {id}]
\* Unlock lets the waiting readers in and passes the writers' mutex on.
Unlock ==
  [readers |-> mu.rwait, rwait |-> {}, wq |-> Tail(mu.wq), w |-> {}, held |-> FALSE]

Init ==
  /\ cfg = NilConfig
  /\ npc = "init"
  /\ newRet = [tl |-> FALSE, err |-> NoErr]
  /\ tl = NilTLSListener
  /\ ul = [kind |-> "none", closed |-> FALSE, closeCalls |-> 0]
  /\ mu = Unlocked
  /\ pc = [t \in Threads |-> "idle"]
  /\ op = [t \in Threads |-> "none"]
  /\ loc = [t \in Threads |-> "nil"]
  /\ ret = [t \in Threads |-> NoResult]
  /\ aft = [t \in Threads |-> FALSE]
  /\ hist = [closeStarted |-> FALSE, closeReturned |-> FALSE, firstCloseRet |-> NoErr]
  /\ rpc = "none"
  /\ rloc = [manager |-> NilManager]
  /\ tick = NoTick

---------------------------------------------------------------------------
\* New without the test of CertDir (lines 49-51).
New_noCertDirTest(c) ==
  /\ npc = "init"
  /\ cfg' = c
  /\ IF c.Domain = ""
       THEN /\ newRet' = [tl |-> FALSE, err |-> ErrDomainRequired]
            /\ npc' = "failed"
            /\ tl' = tl
       ELSE /\ tl' = [NilTLSListener EXCEPT
                        !.domain = c.Domain,
                        !.certDir = c.CertDir,
                        !.email = c.Email,
                        !.allowedDomains = <<c.Domain>> \o c.AllowedDomains]
            /\ npc' = "setup"
            /\ newRet' = newRet
  /\ UNCHANGED <<ul, mu, callVars, hist, renewVars>>

\* New leaving the primary Domain out of allowedDomains (line 57 without
\* the append).
New_allowedOnly(c) ==
  /\ npc = "init"
  /\ cfg' = c
  /\ IF c.Domain = ""
       THEN /\ newRet' = [tl |-> FALSE, err |-> ErrDomainRequired]
            /\ npc' = "failed"
            /\ tl' = tl
       ELSE IF c.CertDir = ""
         THEN /\ newRet' = [tl |-> FALSE, err |-> ErrCertDirRequired]
              /\ npc' = "failed"
              /\ tl' = tl
         ELSE /\ tl' = [NilTLSListener EXCEPT
                          !.domain = c.Domain,
                          !.certDir = c.CertDir,
                          !.email = c.Email,
                          !.allowedDomains = c.AllowedDomains]
              /\ npc' = "setup"
              /\ newRet' = newRet
  /\ UNCHANGED <<ul, mu, callVars, hist, renewVars>>

\* New, lines 45-58: the two required fields, then the TLSListener value.
New(c) ==
  /\ npc = "init"
  /\ cfg' = c
  /\ IF c.Domain = ""
       THEN /\ newRet' = [tl |-> FALSE, err |-> ErrDomainRequired]
            /\ npc' = "failed"
            /\ tl' = tl
       ELSE IF c.CertDir = ""
         THEN /\ newRet' = [tl |-> FALSE, err |-> ErrCertDirRequired]
              /\ npc' = "failed"
              /\ tl' = tl
         ELSE /\ tl' = [NilTLSListener EXCEPT
                          !.domain = c.Domain,
                          !.certDir = c.CertDir,
                          !.email = c.Email,
                          !.allowedDomains = <<c.Domain>> \o c.AllowedDomains]
              /\ npc' = "setup"
              /\ newRet' = newRet
  /\ UNCHANGED <<ul, mu, callVars, hist, renewVars>>

\* The address of the listener below the facade.
UnderlyingAddr == IF ul.kind = "bound" THEN ":443" ELSE "base-addr"

\* The manager setup builds, lines 72-77.
NewManager ==
  [present |-> TRUE, Cache |-> tl.certDir, Email |-> tl.email,
   HostPolicy |-> SeqToSet(tl.allowedDomains)]

\* setup going on after a failed tls.Listen (the error of line 89 ignored):
\* the nil listener and the manager are installed.
setup_ignoresBindError(bindOk) ==
  /\ npc = "setup"
  /\ ul' = IF cfg.BaseListener = "nil"
             THEN [ul EXCEPT !.kind = IF bindOk THEN "bound" ELSE "bindFailed"]
             ELSE [ul EXCEPT !.kind = "wrapped"]
  /\ tl' = [tl EXCEPT
              !.listener = IF cfg.BaseListener = "nil" /\ ~bindOk THEN "nil" ELSE "tls",
              !.certManager = NewManager]
  /\ npc' = "go"
  /\ UNCHANGED <<cfg, newRet, mu, callVars, hist, renewVars>>

\* setup losing the wrapped listener (line 94 assigning a shadowed variable):
\* the handle installed for a BaseListener is nil.
setup_dropsWrapped(bindOk) ==
  /\ npc = "setup"
  /\ IF cfg.BaseListener = "nil" /\ ~bindOk
       THEN /\ newRet' =
                 [tl |-> FALSE,
                  err |-> ErrorsWrap(ErrorsWrap(ErrBind, "failed to create TLS listener"),
                                     "failed to setup TLS listener")]
            /\ npc' = "failed"
            /\ ul' = [ul EXCEPT !.kind = "bindFailed"]
            /\ tl' = tl
       ELSE /\ ul' = [kind |-> IF cfg.BaseListener = "nil" THEN "bound" ELSE "wrapped",
                      closed |-> FALSE, closeCalls |-> 0]
            /\ tl' = [tl EXCEPT
                        !.listener = IF cfg.BaseListener = "nil" THEN "tls" ELSE "nil",
                        !.certManager = NewManager]
            /\ npc' = "go"
            /\ newRet' = newRet
  /\ UNCHANGED <<cfg, mu, callVars, hist, renewVars>>

\* setup installing the listener alone (line 98 missing).
setup_noManager(bindOk) ==
  /\ npc = "setup"
  /\ IF cfg.BaseListener = "nil" /\ ~bindOk
       THEN /\ newRet' =
                 [tl |-> FALSE,
                  err |-> ErrorsWrap(ErrorsWrap(ErrBind, "failed to create TLS listener"),
                                     "failed to setup TLS listener")]
            /\ npc' = "failed"
            /\ ul' = [ul EXCEPT !.kind = "bindFailed"]
            /\ tl' = tl
       ELSE /\ ul' = [kind |-> IF cfg.BaseListener = "nil" THEN "bound" ELSE "wrapped",
                      closed |-> FALSE, closeCalls |-> 0]
            /\ tl' = [tl EXCEPT !.listener = "tls"]
            /\ npc' = "go"
            /\ newRet' = newRet
  /\ UNCHANGED <<cfg, mu, callVars, hist, renewVars>>

\* setup, lines 70-103, with New's handling of its error (lines 60-62).
\* bindOk is the outcome of tls.Listen("tcp", ":443", ...).
setup(bindOk) ==
  /\ npc = "setup"
  /\ LET certManager == NewManager
     IN IF cfg.BaseListener = "nil" /\ ~bindOk
          THEN /\ newRet' =
                    [tl |-> FALSE,
                     err |-> ErrorsWrap(ErrorsWrap(ErrBind, "failed to create TLS listener"),
                                        "failed to setup TLS listener")]
               /\ npc' = "failed"
               /\ ul' = [ul EXCEPT !.kind = "bindFailed"]
               /\ tl' = tl
          ELSE /\ ul' = [kind |-> IF cfg.BaseListener = "nil" THEN "bound" ELSE "wrapped",
                         closed |-> FALSE, closeCalls |-> 0]
               /\ tl' = [tl EXCEPT !.listener = "tls", !.certManager = certManager]
               /\ npc' = "go"
               /\ newRet' = newRet
  /\ UNCHANGED <<cfg, mu, callVars, hist, renewVars>>

\* New, line 65: go tl.renewalRoutine().
New_go ==
  /\ npc = "go"
  /\ npc' = "return"
  /\ rpc' = "wait"
  /\ UNCHANGED <<cfg, newRet, tl, ul, mu, callVars, hist, rloc, tick>>

\* New, line 67: return tl, nil.
New_return ==
  /\ npc = "return"
  /\ npc' = "done"
  /\ newRet' = [tl |-> TRUE, err |-> NoErr]
  /\ UNCHANGED <<cfg, tl, ul, mu, callVars, hist, renewVars>>

\* A goroutine can call a method once New has handed it the facade.
CanCall(t) == npc = "done" /\ newRet.tl /\ pc[t] = "idle"

Call(t, method, first) ==
  /\ CanCall(t)
  /\ pc' = [pc EXCEPT ![t] = first]
  /\ op' = [op EXCEPT ![t] = method]
  /\ loc' = [loc EXCEPT ![t] = "nil"]
  /\ ret' = [ret EXCEPT ![t] = NoResult]
  /\ aft' = [aft EXCEPT ![t] = hist.closeReturned]

Return(t, r) ==
  /\ pc' = [pc EXCEPT ![t] = "idle"]
  /\ ret' = [ret EXCEPT ![t] = r]

---------------------------------------------------------------------------
\* Accept, lines 107-116.
Accept_call(t) ==
  /\ Call(t, "Accept", "Accept_RLock")
  /\ UNCHANGED <<newVars, tl, ul, mu, hist, renewVars>>

\* line 108
Accept_RLock(t) ==
  /\ pc[t] = "Accept_RLock"
  /\ RLockSteps(t)
  /\ mu' = RLock(t)
  /\ pc' = IF RLockPasses(t) THEN [pc EXCEPT ![t] = "Accept_read"] ELSE pc
  /\ UNCHANGED <<newVars, tl, ul, op, loc, ret, aft, hist, renewVars>>

\* Accept holding the shared lock over the blocking call (a deferred RUnlock
\* in place of line 110).
Accept_read_keepsRLock(t) ==
  /\ pc[t] = "Accept_read"
  /\ loc' = [loc EXCEPT ![t] = tl.listener]
  /\ pc' = [pc EXCEPT ![t] = "Accept_check"]
  /\ UNCHANGED <<newVars, tl, ul, mu, op, ret, aft, hist, renewVars>>

\* lines 109-110
Accept_read(t) ==
  /\ pc[t] = "Accept_read"
  /\ loc' = [loc EXCEPT ![t] = tl.listener]
  /\ mu' = RUnlock(t)
  /\ pc' = [pc EXCEPT ![t] = "Accept_check"]
  /\ UNCHANGED <<newVars, tl, ul, op, ret, aft, hist, renewVars>>

\* Accept without the nil test of line 112.
Accept_check_noNilTest(t) ==
  /\ pc[t] = "Accept_check"
  /\ pc' = [pc EXCEPT ![t] = "Accept_blocked"]
  /\ UNCHANGED <<newVars, tl, ul, mu, op, loc, ret, aft, hist, renewVars>>

\* lines 112-115: the closed error, or into the underlying Accept.
Accept_check(t) ==
  /\ pc[t] = "Accept_check"
  /\ IF loc[t] = "nil"
       THEN Return(t, Result("nil", ErrListenerClosed))
       ELSE /\ pc' = [pc EXCEPT ![t] = "Accept_blocked"]
            /\ ret' = ret
  /\ UNCHANGED <<newVars, tl, ul, mu, op, loc, aft, hist, renewVars>>

\* Accept giving the handle up when the underlying Accept fails (an
\* assignment to tl.listener after line 115).
listener_Accept_open_dropsHandle(t) ==
  /\ pc[t] = "Accept_blocked"
  /\ ~ul.closed
  /\ \E r \in {Result("conn", NoErr), Result("nil", ErrAcceptTemporary)} :
       /\ Return(t, r)
       /\ tl' = IF r.err = NoErr THEN tl ELSE [tl EXCEPT !.listener = "nil"]
  /\ UNCHANGED <<newVars, ul, mu, op, loc, aft, hist, renewVars>>

\* line 115, listener.Accept() while the socket is open: a connection
\* arrives, or the accept fails for a reason of its own.
listener_Accept_open(t) ==
  /\ pc[t] = "Accept_blocked"
  /\ ~ul.closed
  /\ \E r \in {Result("conn", NoErr), Result("nil", ErrAcceptTemporary)} : Return(t, r)
  /\ UNCHANGED <<newVars, tl, ul, mu, op, loc, aft, hist, renewVars>>

\* line 115, listener.Accept() on a closed socket fails.
listener_Accept_closed(t) ==
  /\ pc[t] = "Accept_blocked"
  /\ ul.closed
  /\ Return(t, Result("nil", ErrUseOfClosed))
  /\ UNCHANGED <<newVars, tl, ul, mu, op, loc, aft, hist, renewVars>>

---------------------------------------------------------------------------
\* Close, lines 118-129.
Close_call(t) ==
  /\ Call(t, "Close", "Close_Lock")
  /\ hist' = [hist EXCEPT !.closeStarted = TRUE]
  /\ UNCHANGED <<newVars, tl, ul, mu, renewVars>>

\* line 119: the writer takes the writers' mutex and announces itself, or
\* queues for the mutex behind the writers before it ...
Close_Lock(t) ==
  /\ pc[t] = "Close_Lock"
  /\ IF mu.wq = <<>>
       THEN /\ mu' = [mu EXCEPT !.wq = <<t>>, !.w = {t}]
            /\ pc' = [pc EXCEPT ![t] = "Close_wait"]
       ELSE /\ mu' = [mu EXCEPT !.wq = Append(@, t)]
            /\ pc' = [pc EXCEPT ![t] = "Close_mutex"]
  /\ UNCHANGED <<newVars, tl, ul, op, loc, ret, aft, hist, renewVars>>

\* A writer announcing itself without the writers' mutex (line 119 with a
\* lock that does not keep two writers apart).
Close_announce_noMutex(t) ==
  /\ pc[t] = "Close_mutex"
  /\ mu' = [mu EXCEPT !.w = {t}]
  /\ pc' = [pc EXCEPT ![t] = "Close_wait"]
  /\ UNCHANGED <<newVars, tl, ul, op, loc, ret, aft, hist, renewVars>>

\* ... and announces itself when the mutex is passed to it ...
Close_announce(t) ==
  /\ pc[t] = "Close_mutex"
  /\ Head(mu.wq) = t
  /\ mu.w = {}
  /\ mu' = [mu EXCEPT !.w = {t}]
  /\ pc' = [pc EXCEPT ![t] = "Close_wait"]
  /\ UNCHANGED <<newVars, tl, ul, op, loc, ret, aft, hist, renewVars>>

\* ... and holds the lock once the readers have left.
Close_acquire(t) ==
  /\ pc[t] = "Close_wait"
  /\ mu.w = {t}
  /\ mu.readers = {}
  /\ mu' = [mu EXCEPT !.held = TRUE]
  /\ pc' = [pc EXCEPT ![t] = "Close_check"]
  /\ UNCHANGED <<newVars, tl, ul, op, loc, ret, aft, hist, renewVars>>

\* Close returning the underlying error at once (a return between lines 126
\* and 127): the handle stays in place when the underlying Close fails.
Close_check_returnsOnError(t) ==
  /\ pc[t] = "Close_check"
  /\ IF tl.listener = "nil"
       THEN /\ ret' = [ret EXCEPT ![t] = Result("nil", NoErr)]
            /\ pc' = [pc EXCEPT ![t] = "Close_Unlock"]
            /\ ul' = ul
       ELSE /\ \E e \in {NoErr, ErrUnderlyingClose} :
                 /\ ret' = [ret EXCEPT ![t] = Result("nil", e)]
                 /\ pc' = [pc EXCEPT ![t] =
                             IF e = NoErr THEN "Close_setnil" ELSE "Close_Unlock"]
            /\ ul' = [ul EXCEPT !.closed = TRUE, !.closeCalls = @ + 1]
  /\ UNCHANGED <<newVars, tl, mu, op, loc, aft, hist, renewVars>>

\* Close without the nil test of line 122: the underlying Close is called
\* on every call.
Close_check_noNilTest(t) ==
  /\ pc[t] = "Close_check"
  /\ \E e \in {NoErr, ErrUnderlyingClose} :
       ret' = [ret EXCEPT ![t] = Result("nil", e)]
  /\ ul' = [ul EXCEPT !.closed = TRUE, !.closeCalls = @ + 1]
  /\ pc' = [pc EXCEPT ![t] = "Close_setnil"]
  /\ UNCHANGED <<newVars, tl, mu, op, loc, aft, hist, renewVars>>

\* lines 122-126: nothing to do on a nil handle, else the underlying Close,
\* whose error e is kept for the return.
Close_check(t) ==
  /\ pc[t] = "Close_check"
  /\ IF tl.listener = "nil"
       THEN /\ ret' = [ret EXCEPT ![t] = Result("nil", NoErr)]
            /\ pc' = [pc EXCEPT ![t] = "Close_Unlock"]
            /\ ul' = ul
       ELSE /\ \E e \in {NoErr, ErrUnderlyingClose} :
                 ret' = [ret EXCEPT ![t] = Result("nil", e)]
            /\ ul' = [ul EXCEPT !.closed = TRUE, !.closeCalls = @ + 1]
            /\ pc' = [pc EXCEPT ![t] = "Close_setnil"]
  /\ UNCHANGED <<newVars, tl, mu, op, loc, aft, hist, renewVars>>

\* Close leaving the handle in place (line 127 missing).
Close_setnil_keepsHandle(t) ==
  /\ pc[t] = "Close_setnil"
  /\ pc' = [pc EXCEPT ![t] = "Close_Unlock"]
  /\ UNCHANGED <<newVars, tl, ul, mu, op, loc, ret, aft, hist, renewVars>>

\* Close clearing the manager along with the listener.
Close_setnil_dropsManager(t) ==
  /\ pc[t] = "Close_setnil"
  /\ tl' = [tl EXCEPT !.listener = "nil", !.certManager = NilManager]
  /\ pc' = [pc EXCEPT ![t] = "Close_Unlock"]
  /\ UNCHANGED <<newVars, ul, mu, op, loc, ret, aft, hist, renewVars>>

\* line 127
Close_setnil(t) ==
  /\ pc[t] = "Close_setnil"
  /\ tl' = [tl EXCEPT !.listener = "nil"]
  /\ pc' = [pc EXCEPT ![t] = "Close_Unlock"]
  /\ UNCHANGED <<newVars, ul, mu, op, loc, ret, aft, hist, renewVars>>

\* lines 120 and 128: the deferred Unlock, and the return.
Close_Unlock(t) ==
  /\ pc[t] = "Close_Unlock"
  /\ mu' = Unlock
  /\ pc' = [pc EXCEPT ![t] = "idle"]
  /\ hist' = [hist EXCEPT
                !.closeReturned = TRUE,
                !.firstCloseRet = IF hist.closeReturned THEN @ ELSE ret[t].err]
  /\ UNCHANGED <<newVars, tl, ul, op, loc, ret, aft, renewVars>>

---------------------------------------------------------------------------
\* Addr, lines 131-139.
Addr_call(t) ==
  /\ Call(t, "Addr", "Addr_RLock")
  /\ UNCHANGED <<newVars, tl, ul, mu, hist, renewVars>>

\* line 132
Addr_RLock(t) ==
  /\ pc[t] = "Addr_RLock"
  /\ RLockSteps(t)
  /\ mu' = RLock(t)
  /\ pc' = IF RLockPasses(t) THEN [pc EXCEPT ![t] = "Addr_read"] ELSE pc
  /\ UNCHANGED <<newVars, tl, ul, op, loc, ret, aft, hist, renewVars>>

\* Addr without the nil test of line 135, answering from the listener it
\* was built on.
Addr_read_noNilTest(t) ==
  /\ pc[t] = "Addr_read"
  /\ ret' = [ret EXCEPT ![t] = Result(UnderlyingAddr, NoErr)]
  /\ pc' = [pc EXCEPT ![t] = "Addr_RUnlock"]
  /\ UNCHANGED <<newVars, tl, ul, mu, op, loc, aft, hist, renewVars>>

\* lines 135-138
Addr_read(t) ==
  /\ pc[t] = "Addr_read"
  /\ ret' = [ret EXCEPT ![t] =
               IF tl.listener = "nil" THEN Result("nil", NoErr)
                                      ELSE Result(UnderlyingAddr, NoErr)]
  /\ pc' = [pc EXCEPT ![t] = "Addr_RUnlock"]
  /\ UNCHANGED <<newVars, tl, ul, mu, op, loc, aft, hist, renewVars>>

\* line 133: the deferred RUnlock, and the return.
Addr_RUnlock(t) ==
  /\ pc[t] = "Addr_RUnlock"
  /\ mu' = RUnlock(t)
  /\ pc' = [pc EXCEPT ![t] = "idle"]
  /\ UNCHANGED <<newVars, tl, ul, op, loc, ret, aft, hist, renewVars>>

---------------------------------------------------------------------------
\* shouldRenew deciding on the 30 days before expiry alone.
shouldRenew_expiryOnly(info, now) ==
  AddDate(now, 0, 0, 30) > info.NotAfter

\* shouldRenew, lines 184-198, on the certInfo that getCertInfo returned.
shouldRenew(info, now) ==
  LET twoMonthsAgo == AddDate(now, 0, -2, 0)
      thirtyDaysFromNow == AddDate(now, 0, 0, 30)
  IN IF info.NotBefore > twoMonthsAgo
       THEN FALSE
       ELSE IF thirtyDaysFromNow > info.NotAfter THEN TRUE ELSE TRUE

\* manager.GetCertificate(&tls.ClientHelloInfo{ServerName: name}): an error,
\* or a certificate when the host policy allows the name.
GetCertificateResults(manager, name, now) ==
  {[err |-> ErrAcme, cert |-> NoCertInfo]}
    \cup IF name \in manager.HostPolicy
           THEN {[err |-> NoErr, cert |-> c] : c \in CertificatesAt(now)}
           ELSE {}

\* How the previous tick ended, as the next tick remembers it.
PrevOf(outcome) ==
  IF outcome \in {"none"} THEN "none"
  ELSE IF outcome \in {"checkFailed", "renewFailed"} THEN "failed" ELSE "ok"

\* renewalRoutine, line 206: the ticker fires.
renewalRoutine_tick ==
  /\ rpc = "wait"
  /\ rpc' = "getCertInfo_RLock"
  /\ tick' = [NoTick EXCEPT !.outcome = "running", !.prev = PrevOf(tick.outcome)]
  /\ UNCHANGED <<newVars, tl, ul, mu, callVars, hist, rloc>>

\* getCertInfo, line 149
getCertInfo_RLock ==
  /\ rpc = "getCertInfo_RLock"
  /\ RLockSteps(RenewalId)
  /\ mu' = RLock(RenewalId)
  /\ rpc' = IF RLockPasses(RenewalId) THEN "getCertInfo_read" ELSE rpc
  /\ UNCHANGED <<newVars, tl, ul, callVars, hist, rloc, tick>>

\* getCertInfo, lines 150-151
getCertInfo_read ==
  /\ rpc = "getCertInfo_read"
  /\ rloc' = [rloc EXCEPT !.manager = tl.certManager]
  /\ mu' = RUnlock(RenewalId)
  /\ rpc' = "shouldRenew"
  /\ UNCHANGED <<newVars, tl, ul, callVars, hist, tick>>

\* The end of a tick: back to the ticker (a logged error is not kept).
EndTick(fetches, outcome, now, info) ==
  /\ rpc' = "wait"
  /\ tick' = [tick EXCEPT !.fetches = fetches, !.outcome = outcome, !.now = now, !.info = info]

\* A failed check going on to the renewal request (line 210 missing).
renewalRoutine_continue_renews(fetches) ==
  /\ rpc' = "renewCertificates_RLock"
  /\ tick' = [tick EXCEPT !.fetches = fetches]

\* A failed check leaving the loop (return in place of continue, line 210).
renewalRoutine_continue_returns(fetches) ==
  /\ rpc' = "stopped"
  /\ tick' = [tick EXCEPT !.fetches = fetches, !.outcome = "checkFailed"]

\* renewalRoutine, lines 208-211: a failed check is logged and the loop
\* continues with the next tick.
renewalRoutine_continue(fetches) ==
  EndTick(fetches, "checkFailed", 0, NoCertInfo)

\* renewalRoutine, lines 207-213, with the rest of getCertInfo (lines 153-174)
\* and shouldRenew (lines 180-198): the manager's certificate is fetched and
\* parsed, and its dates decide whether renewCertificates is called.
renewalRoutine_shouldRenew ==
  /\ rpc = "shouldRenew"
  /\ IF ~rloc.manager.present
       THEN renewalRoutine_continue(tick.fetches)
       ELSE \E now \in Nows :
            \E got \in GetCertificateResults(rloc.manager, tl.domain, now) :
            \E parsed \in BOOLEAN :
              IF got.err # NoErr \/ ~parsed
                THEN renewalRoutine_continue(tick.fetches + 1)
                ELSE IF shouldRenew(got.cert, now)
                  THEN /\ rpc' = "renewCertificates_RLock"
                       /\ tick' = [tick EXCEPT !.fetches = @ + 1, !.now = now, !.info = got.cert]
                  ELSE EndTick(tick.fetches + 1, "notDue", now, got.cert)
  /\ UNCHANGED <<newVars, tl, ul, mu, callVars, hist, rloc>>

\* renewCertificates, line 225
renewCertificates_RLock ==
  /\ rpc = "renewCertificates_RLock"
  /\ RLockSteps(RenewalId)
  /\ mu' = RLock(RenewalId)
  /\ rpc' = IF RLockPasses(RenewalId) THEN "renewCertificates_read" ELSE rpc
  /\ UNCHANGED <<newVars, tl, ul, callVars, hist, rloc, tick>>

\* renewCertificates, lines 226-227
renewCertificates_read ==
  /\ rpc = "renewCertificates_read"
  /\ rloc' = [rloc EXCEPT !.manager = tl.certManager]
  /\ mu' = RUnlock(RenewalId)
  /\ rpc' = "renewCertificates"
  /\ UNCHANGED <<newVars, tl, ul, callVars, hist, tick>>

\* renewCertificates, lines 229-238, and renewalRoutine's logging of the
\* result, lines 214-218.
renewCertificates ==
  /\ rpc = "renewCertificates"
  /\ IF ~rloc.manager.present
       THEN EndTick(tick.fetches, "renewFailed", tick.now, tick.info)
       ELSE \E got \in GetCertificateResults(rloc.manager, tl.domain, tick.now) :
              EndTick(tick.fetches + 1,
                      IF got.err # NoErr THEN "renewFailed" ELSE "renewed",
                      tick.now, tick.info)
  /\ UNCHANGED <<newVars, tl, ul, mu, callVars, hist, rloc>>

---------------------------------------------------------------------------
ThreadStep(t) ==
  \/ Accept_call(t)
  \/ Accept_RLock(t)
  \/ Accept_read(t)
  \/ Accept_check(t)
  \/ listener_Accept_open(t)
  \/ listener_Accept_closed(t)
  \/ Close_call(t)
  \/ Close_Lock(t)
  \/ Close_announce(t)
  \/ Close_acquire(t)
  \/ Close_check(t)
  \/ Close_setnil(t)
  \/ Close_Unlock(t)
  \/ Addr_call(t)
  \/ Addr_RLock(t)
  \/ Addr_read(t)
  \/ Addr_RUnlock(t)

NewStep ==
  \/ \E c \in Configs : New(c)
  \/ \E bindOk \in BOOLEAN : setup(bindOk)
  \/ New_go
  \/ New_return

renewalRoutine ==
  \/ renewalRoutine_tick
  \/ getCertInfo_RLock
  \/ getCertInfo_read
  \/ renewalRoutine_shouldRenew
  \/ renewCertificates_RLock
  \/ renewCertificates_read
  \/ renewCertificates

\* The whole program: New, the goroutines calling the facade, and the
\* renewal goroutine.  Callers are the goroutines that call the facade while
\* the renewal goroutine runs.
Callers == {1, 2}

Next ==
  \/ NewStep
  \/ \E t \in Callers : ThreadStep(t)
  \/ renewalRoutine

Spec == Init /\ [][Next]_vars

\* The facade under any number of calling goroutines, within one period of
\* the ticker (24 hours): the renewal goroutine waits at line 206.
NextListener ==
  \/ NewStep
  \/ \E t \in Threads : ThreadStep(t)

SpecListener == Init /\ [][NextListener]_vars

\* The steps of a call of t after its start, but for the return of the
\* underlying accept call from an open socket.
ThreadProgress(t) ==
  \/ Accept_RLock(t)
  \/ Accept_read(t)
  \/ Accept_check(t)
  \/ listener_Accept_closed(t)
  \/ Close_Lock(t)
  \/ Close_announce(t)
  \/ Close_acquire(t)
  \/ Close_check(t)
  \/ Close_setnil(t)
  \/ Close_Unlock(t)
  \/ Addr_RLock(t)
  \/ Addr_read(t)
  \/ Addr_RUnlock(t)

\* Scheduling of the calling goroutines: a goroutine that can take its next
\* step takes it (its position enables one step at a time), and a blocked
\* Accept returns once the socket is closed.  Nothing makes a caller start a
\* call, and nothing makes a connection arrive.
ThreadFairness(t) == WF_vars(ThreadProgress(t))

FairnessListener == \A t \in Threads : ThreadFairness(t)

FairSpecListener == SpecListener /\ FairnessListener

\* Scheduling of the renewal goroutine: the ticker fires every 24 hours, and
\* the goroutine takes its steps like any other goroutine.
RenewalFairness == WF_vars(renewalRoutine)

\* The renewal goroutine beside a single calling goroutine.  With one caller
\* no Close runs while its Accept is blocked, so a blocked Accept returns
\* from the open socket only, and no writer queues behind another.
Solo == 1

SoloStep ==
  \/ Accept_call(Solo)
  \/ Accept_RLock(Solo)
  \/ Accept_read(Solo)
  \/ Accept_check(Solo)
  \/ listener_Accept_open(Solo)
  \/ Close_call(Solo)
  \/ Close_Lock(Solo)
  \/ Close_acquire(Solo)
  \/ Close_check(Solo)
  \/ Close_setnil(Solo)
  \/ Close_Unlock(Solo)
  \/ Addr_call(Solo)
  \/ Addr_RLock(Solo)
  \/ Addr_read(Solo)
  \/ Addr_RUnlock(Solo)

NextSolo ==
  \/ NewStep
  \/ SoloStep
  \/ renewalRoutine

SpecSolo == Init /\ [][NextSolo]_vars

FairSpecSolo == SpecSolo /\ ThreadFairness(Solo) /\ RenewalFairness

---------------------------------------------------------------------------
\* A call of method m by t that has returned.
Returned(t, m) == op[t] = m /\ pc[t] = "idle"

\* C1: an Accept call that starts after a Close call has returned never
\* enters the underlying Accept, never returns a connection, and returns the
\* facade's "listener is closed" error, whatever the first Close returned.
C1_AcceptAfterCloseFails ==
  \A t \in Threads :
    (op[t] = "Accept" /\ aft[t]) =>
      /\ pc[t] # "Accept_blocked"
      /\ ret[t].val = "nil"
      /\ pc[t] = "idle" => ret[t] = Result("nil", ErrListenerClosed)

\* An Accept that started after a Close which returned an error has been
\* refused.
C1_Witness ==
  \E t \in Threads :
    /\ Returned(t, "Accept") /\ aft[t]
    /\ ret[t].err = ErrListenerClosed
    /\ hist.firstCloseRet = ErrUnderlyingClose

\* C2: a Close call that starts after an earlier Close has returned yields no
\* error and never reaches the underlying Close, which has been called once,
\* and the listener handle is nil from the first return on.
C2_CloseIdempotent ==
  /\ \A t \in Threads :
       (op[t] = "Close" /\ aft[t]) =>
         /\ ret[t].err = NoErr
         /\ pc[t] # "Close_setnil"
  /\ hist.closeReturned => (ul.closeCalls = 1 /\ tl.listener = "nil")

\* A second Close has returned after a first one that returned an error.
C2_Witness ==
  \E t \in Threads :
    /\ Returned(t, "Close") /\ aft[t]
    /\ hist.firstCloseRet = ErrUnderlyingClose
    /\ ul.closeCalls = 1

\* C7: an Addr call that starts after a Close call has returned yields nil,
\* and while Addr holds the shared lock with its answer, the answer is the
\* underlying listener's address exactly when the handle is not nil.
C7_AddrNilAfterClose ==
  \A t \in Threads :
    op[t] = "Addr" =>
      /\ aft[t] => ret[t].val = "nil"
      /\ pc[t] = "Addr_RUnlock" =>
           /\ tl.listener # "nil" => ret[t].val = UnderlyingAddr
           /\ tl.listener = "nil" => ret[t].val = "nil"

\* One Addr answered with the address before any Close returned, another
\* answered nil after a Close.
C7_Witness ==
  \E t, u \in Threads :
    /\ Returned(t, "Addr") /\ aft[t] /\ ret[t].val = "nil"
    /\ Returned(u, "Addr") /\ ~aft[u] /\ ret[u].val = UnderlyingAddr

\* A calling goroutine at rest: not in a call, or in the underlying accept
\* call of an open socket.
AtRest(t) == pc[t] = "idle" \/ (pc[t] = "Accept_blocked" /\ ~ul.closed)

\* C3: an Accept blocked in the underlying accept call holds no lock, so a
\* Close never waits for it; no call stays behind the lock or stays blocked
\* on a closed socket: every Close, every Addr and every Accept on a closed
\* socket returns, and an Accept leaving the accept call of a closed socket
\* returns an error and no connection.
C3_CloseDuringAccept ==
  /\ [](\A t \in Threads :
          pc[t] = "Accept_blocked" => (t \notin mu.readers /\ t \notin mu.rwait))
  /\ [][\A t \in Threads :
          (pc[t] = "Accept_blocked" /\ ul.closed /\ pc'[t] = "idle") =>
            (ret'[t].err # NoErr /\ ret'[t].val = "nil")]_vars
  /\ \A t \in Threads : ~AtRest(t) ~> AtRest(t)

\* A Close has returned while an Accept is still blocked in the underlying
\* accept call of the socket it closed.
C3_Witness ==
  \E t, u \in Threads :
    /\ pc[t] = "Accept_blocked" /\ ul.closed
    /\ Returned(u, "Close") /\ ~aft[u]

\* A tick of the renewal goroutine has been handled to its end.
TickDone == rpc = "wait" /\ tick.outcome # "none"

\* C4 as stated: on every tick GetCertificate is called exactly once.
C4_OncePerTick == TickDone => tick.fetches = 1

\* C4, amended: on every tick the certificate check calls GetCertificate
\* once, and renewCertificates calls it a second time exactly when the check
\* succeeded and the certificate's NotBefore is not after two months before
\* now, whatever the outcome of the previous tick.
C4_FetchesPerTick ==
  /\ tick.fetches <= 2
  /\ TickDone =>
       /\ tick.outcome = "checkFailed" => tick.fetches = 1
       /\ tick.outcome = "notDue" =>
            /\ tick.fetches = 1
            /\ tick.info.NotBefore > AddDate(tick.now, 0, -2, 0)
       /\ tick.outcome \in {"renewed", "renewFailed"} =>
            /\ tick.fetches = 2
            /\ tick.info.NotBefore <= AddDate(tick.now, 0, -2, 0)

\* A tick after a failed tick has fetched twice.
C4_Witness == TickDone /\ tick.fetches = 2 /\ tick.prev = "failed"

\* The errors of the certificate check and of the renewal request.
RenewalErrors == {ErrManagerNotInitialized, ErrAcme, ErrParse}

\* C8: the renewal goroutine, once started, finishes the handling of every
\* tick and handles the next one, also after a failed check or a failed
\* renewal request and after the facade has been closed, and no caller of
\* Accept, Addr or Close is returned an error of the renewal goroutine.
C8_RenewalNeverStops ==
  /\ (rpc # "none") ~> (rpc = "wait")
  /\ (rpc = "wait") ~> (rpc = "shouldRenew")
  /\ (TickDone /\ tick.outcome \in {"checkFailed", "renewFailed"})
       ~> (rpc = "shouldRenew" /\ tick.prev = "failed")
  /\ (TickDone /\ hist.closeReturned) ~> (rpc = "shouldRenew" /\ hist.closeReturned)
  /\ [](\A t \in Threads : \A i \in 1..Len(ret[t].err) :
          <<ret[t].err[i]>> \notin RenewalErrors)

\* After a Close has returned, the tick that follows a failed tick is being
\* handled.
C8_Witness ==
  /\ rpc = "shouldRenew"
  /\ tick.prev = "failed"
  /\ hist.closeReturned

\* New has returned.
NewReturned == npc \in {"done", "failed"}
ValidConfig == cfg.Domain # "" /\ cfg.CertDir # ""

\* C5: New with an empty Domain or an empty CertDir fails with the error of
\* the missing field, returns no facade, creates or wraps no listener,
\* installs nothing and starts no renewal goroutine.
C5_EmptyConfigFails ==
  (npc # "init" /\ ~ValidConfig) =>
    /\ npc = "failed"
    /\ ~newRet.tl
    /\ newRet.err = IF cfg.Domain = "" THEN ErrDomainRequired ELSE ErrCertDirRequired
    /\ ul.kind = "none"
    /\ tl = NilTLSListener
    /\ rpc = "none"

\* New has refused a configuration with a Domain and a BaseListener but no
\* CertDir.
C5_Witness ==
  /\ npc = "failed"
  /\ cfg.Domain # "" /\ cfg.CertDir = "" /\ cfg.BaseListener = "base"
  /\ newRet.err = ErrCertDirRequired

\* C6 as stated: every configuration with a Domain and a CertDir makes New
\* succeed.
C6_ValidConfigSucceeds ==
  (NewReturned /\ ValidConfig) => (newRet.tl /\ newRet.err = NoErr)

\* C6, amended: with a Domain and a CertDir, New succeeds when a BaseListener
\* is supplied or the bind of :443 succeeds, and fails only when that bind
\* fails; until a Close is called the handle is set and every Addr answers
\* with the underlying address, which is not nil.
C6_ValidConfigSucceedsUnlessBindFails ==
  (NewReturned /\ ValidConfig) =>
    /\ cfg.BaseListener = "base" => ul.kind = "wrapped"
    /\ (newRet.tl /\ newRet.err = NoErr) <=> ul.kind # "bindFailed"
    /\ (newRet.tl /\ ~hist.closeStarted) =>
         /\ tl.listener # "nil"
         /\ UnderlyingAddr # "nil"
         /\ \A t \in Threads :
              (op[t] = "Addr" /\ pc[t] \in {"Addr_RUnlock", "idle"}) =>
                ret[t].val = UnderlyingAddr

\* Addr has answered with the address of a wrapped BaseListener, no Close
\* having been called.
C6_Witness ==
  \E t \in Threads :
    /\ Returned(t, "Addr") /\ ~hist.closeStarted
    /\ cfg.BaseListener = "base"
    /\ ret[t].val = "base-addr"

\* C9: when no BaseListener is supplied and the bind fails, New returns the
\* bind error wrapped by setup and by New, returns no facade, installs
\* neither handle and starts no renewal goroutine.
C9_BindFailureIsFatal ==
  ul.kind = "bindFailed" =>
    /\ cfg.BaseListener = "nil"
    /\ npc = "failed"
    /\ ~newRet.tl
    /\ newRet.err = <<"failed to setup TLS listener", "failed to create TLS listener">> \o ErrBind
    /\ tl.listener = "nil"
    /\ tl.certManager = NilManager
    /\ rpc = "none"
    /\ \A t \in Threads : pc[t] = "idle" /\ op[t] = "none"

\* New has failed on the bind for a configuration with a Domain and a
\* CertDir.
C9_Witness ==
  /\ ul.kind = "bindFailed" /\ npc = "failed"
  /\ ValidConfig
  /\ Len(newRet.err) = 3

\* C10: once setup has installed the certificate manager, no step of Accept,
\* Addr, Close or the renewal goroutine changes it, and it is still that
\* manager after Close has returned.
C10_ManagerNeverChanges ==
  /\ [][tl.certManager.present => tl.certManager' = tl.certManager]_vars
  /\ [](hist.closeReturned => (tl.certManager.present /\ tl.certManager = NewManager))

\* After a Close has returned, a tick has been handled with the manager
\* still installed.
C10_Witness ==
  /\ hist.closeReturned /\ TickDone /\ tick.prev # "none"
  /\ tl.certManager.present
  /\ \E t \in Threads : Returned(t, "Accept") /\ aft[t]

\* The goroutines inside the lock: the readers, and the writer that holds it.
LockHolders == mu.readers \cup (IF mu.held THEN mu.w ELSE {})
\* The writer is between the underlying Close and the clearing of the handle
\* (lines 126-127), where no other goroutine is inside the lock.
MidClose == \E t \in Threads : pc[t] = "Close_setnil"

\* C11: whenever a goroutine is inside the lock, but for the writer between
\* its lines 126 and 127, and whenever nobody is, a handle that is not nil
\* refers to a listener on which Close has not been called, and a nil handle
\* of a facade that setup has built is the mark of the one Close; a handle
\* that is nil after setup stays nil.
C11_HandleUsableOrNil ==
  /\ [](~MidClose =>
          /\ tl.listener # "nil" => (~ul.closed /\ ul.closeCalls = 0)
          /\ (tl.listener = "nil" /\ npc \in {"go", "return", "done"}) =>
               (ul.closed /\ ul.closeCalls = 1))
  /\ [](MidClose => (mu.held /\ mu.readers = {} /\ LockHolders = mu.w))
  /\ [][(tl.listener = "nil" /\ npc # "setup") => tl.listener' = "nil"]_vars

\* An Addr inside the shared lock sees the nil handle a Close has left, after
\* another reader was let in behind that Close.
C11_Witness ==
  \E t \in Threads :
    /\ pc[t] = "Addr_read" /\ t \in LockHolders
    /\ tl.listener = "nil" /\ ul.closed
    /\ ~aft[t]

\* The goroutines in the underlying accept call (line 115).
AcceptBlocked == {t \in Threads : pc[t] = "Accept_blocked"}
\* An Accept of another goroutine than u is in the underlying accept call.
AcceptBlockedBeside(u) == AcceptBlocked \ {u} # {}

\* C12: a goroutine in the underlying accept call is neither inside the lock
\* nor waiting for it, and while an Accept is blocked there and no other
\* operation is inside the lock, a Close at the lock can take its step: it
\* announces itself, and once announced it acquires the lock.
C12_BlockedAcceptHoldsNoLock ==
  /\ \A t \in Threads :
       pc[t] = "Accept_blocked" =>
         (t \notin LockHolders /\ t \notin mu.rwait /\ t \notin SeqToSet(mu.wq))
  /\ \A u \in Threads :
       (AcceptBlockedBeside(u) /\ LockHolders \subseteq AcceptBlocked) =>
         /\ pc[u] = "Close_Lock" => ENABLED Close_Lock(u)
         /\ (pc[u] = "Close_mutex" /\ mu.w = {} /\ Head(mu.wq) = u) =>
              ENABLED Close_announce(u)
         /\ (pc[u] = "Close_wait" /\ mu.w = {u}) => ENABLED Close_acquire(u)

\* A Close has announced itself and is about to acquire the lock, while an
\* Accept is blocked on the open socket.
C12_Witness ==
  \E u \in Threads :
    /\ AcceptBlockedBeside(u) /\ ~ul.closed
    /\ pc[u] = "Close_wait" /\ LockHolders = {}
    /\ ENABLED Close_acquire(u)

\* The check of the tick has succeeded and shouldRenew has decided on the
\* dates in tick.info at the time tick.now.
CheckDecided == TickDone /\ tick.outcome \in {"notDue", "renewed", "renewFailed"}
\* The time of the tick is within 30 days of the certificate's expiry
\* (line 194).
NearExpiry == AddDate(tick.now, 0, 0, 30) > tick.info.NotAfter

\* C13: whenever the time of the check is within 30 days of the
\* certificate's NotAfter, shouldRenew reports that the certificate should be
\* renewed and the renewal is requested, whatever the NotBefore, also one
\* less than two months in the past.
C13_RenewsNearExpiry ==
  (CheckDecided /\ NearExpiry) =>
    /\ shouldRenew(tick.info, tick.now)
    /\ tick.outcome \in {"renewed", "renewFailed"}

\* C14: the error of the underlying Close is the error the first Close
\* returns: it is kept from line 126 to the return, the handle is nil when
\* the lock is released, and after that return the facade is closed: a later
\* Accept returns the closed error, a later Addr nil, a later Close no error.
C14_CloseErrorStillCloses ==
  /\ [][\A t \in Threads :
          (op[t] = "Close" /\ pc[t] \in {"Close_setnil", "Close_Unlock"}) =>
            ret'[t] = ret[t]]_vars
  /\ [](\A t \in Threads :
          (pc[t] = "Close_Unlock" /\ ret[t].err = ErrUnderlyingClose) =>
            (tl.listener = "nil" /\ ~hist.closeReturned))
  /\ [](hist.firstCloseRet = ErrUnderlyingClose =>
          /\ hist.closeReturned /\ tl.listener = "nil" /\ ul.closed
          /\ \A t \in Threads :
               (aft[t] /\ pc[t] = "idle") =>
                 /\ op[t] = "Accept" => ret[t] = Result("nil", ErrListenerClosed)
                 /\ op[t] = "Addr" => ret[t] = Result("nil", NoErr)
                 /\ op[t] = "Close" => ret[t] = Result("nil", NoErr))

\* After a first Close that returned the underlying error, an Addr has
\* answered nil and a second Close has returned no error.
C14_Witness ==
  /\ hist.firstCloseRet = ErrUnderlyingClose
  /\ \E t, u \in Threads :
       /\ Returned(t, "Addr") /\ aft[t] /\ ret[t].val = "nil"
       /\ Returned(u, "Close") /\ aft[u] /\ ret[u].err = NoErr

\* The step is setup's installation of the handles (lines 97-100).
SetupInstalls == npc = "setup" /\ npc' = "go"
\* The step is Close's clearing of the listener handle (line 127).
CloseClears ==
  \E t \in Threads :
    op[t] = "Close" /\ pc[t] = "Close_setnil" /\ pc'[t] = "Close_Unlock"

\* C15: the listener handle is written by setup and by Close only, and the
\* certificate manager handle by setup only: no step of Accept, of Addr, of
\* the certificate check or of the renewal request changes a field of the
\* facade, whether the call succeeds or fails.
C15_OnlySetupAndCloseWrite ==
  /\ [][tl.listener' # tl.listener => (SetupInstalls \/ CloseClears)]_vars
  /\ [][tl.certManager' # tl.certManager => SetupInstalls]_vars
  /\ [][(rpc' # rpc \/ tick' # tick \/ rloc' # rloc) => tl' = tl]_vars
  /\ [][\A t \in Threads :
          (pc'[t] # pc[t] /\ op'[t] \in {"Accept", "Addr"}) => tl' = tl]_vars

\* An Accept has failed on the open socket and a renewal request has failed,
\* and both handles are those setup installed.
C15_Witness ==
  /\ \E t \in Threads : Returned(t, "Accept") /\ ret[t].err = ErrAcceptTemporary
  /\ TickDone /\ tick.outcome = "renewFailed"
  /\ tl.listener = "tls" /\ tl.certManager = NewManager

\* renewCertificates has been called on the tick at hand (line 214).
RenewalRequested ==
  \/ rpc \in {"renewCertificates_RLock", "renewCertificates_read", "renewCertificates"}
  \/ (TickDone /\ tick.outcome \in {"renewed", "renewFailed"})

CloseErrorReceivers == {t \in Threads : op[t] = "Close" /\ ret[t].err # NoErr}

\* C17: however the Close calls of the goroutines interleave, the underlying
\* Close is called at most once; a Close is given an error only by the step
\* that makes that one call, the error being the underlying one, so at most
\* one caller holds it and every other Close returns no error.
C17_ConcurrentCloseOnce ==
  /\ [](ul.closeCalls <= 1)
  /\ [](Cardinality(CloseErrorReceivers) <= ul.closeCalls)
  /\ [](\A t \in CloseErrorReceivers : ret[t].err = ErrUnderlyingClose)
  /\ [][\A t \in Threads :
          (t \in CloseErrorReceivers' /\ ret'[t] # ret[t]) =>
            (ul.closeCalls = 0 /\ ul.closeCalls' = 1)]_vars

\* Two Close calls that both started before either returned have returned,
\* one with the underlying error and one with none.
C17_Witness ==
  \E t, u \in Threads :
    /\ Returned(t, "Close") /\ ~aft[t] /\ ret[t].err = ErrUnderlyingClose
    /\ Returned(u, "Close") /\ ~aft[u] /\ ret[u].err = NoErr
    /\ ul.closeCalls = 1

\* The renewal goroutine holds the copy of the manager handle it has read
\* under the lock (lines 150 and 226) and is about to test it.
ManagerObserved == rpc \in {"shouldRenew", "renewCertificates"}

\* C18: the manager is installed when the renewal goroutine starts and when
\* New returns the facade, and stays installed, also after Close; every copy
\* of the handle the renewal goroutine reads is that manager, so no tick ends
\* with "cert manager is not initialized": a failed check has called
\* GetCertificate once, and a failed renewal request twice.
C18_ManagerNeverNil ==
  /\ (rpc # "none" \/ newRet.tl) => (tl.certManager.present /\ tl.certManager = NewManager)
  /\ ManagerObserved => (rloc.manager.present /\ rloc.manager = tl.certManager)
  /\ TickDone =>
       /\ tick.outcome = "checkFailed" => tick.fetches = 1
       /\ tick.outcome = "renewFailed" => tick.fetches = 2

\* After a Close has returned, renewCertificates has read the manager and
\* is about to request the certificate from it.
C18_Witness ==
  /\ hist.closeReturned /\ tl.listener = "nil"
  /\ rpc = "renewCertificates"
  /\ rloc.manager.present

\* The names the configuration allows: the primary Domain and the
\* AllowedDomains.
ConfiguredNames == {cfg.Domain} \cup SeqToSet(cfg.AllowedDomains)

\* C19: the host policy of the manager setup installs allows the primary
\* Domain and the AllowedDomains of the configuration and no other name, so
\* the name the renewal goroutine asks a certificate for, the primary
\* Domain, is allowed by the manager it asks, whether AllowedDomains is
\* empty or not.
C19_HostPolicyHoldsDomain ==
  /\ tl.certManager.present =>
       /\ tl.certManager.HostPolicy = ConfiguredNames
       /\ tl.domain = cfg.Domain
       /\ tl.domain \in tl.certManager.HostPolicy
  /\ ManagerObserved =>
       /\ tl.domain \in rloc.manager.HostPolicy
       /\ \E now \in Nows : \E got \in GetCertificateResults(rloc.manager, tl.domain, now) :
            got.err = NoErr

\* With no AllowedDomains configured the policy holds the primary Domain
\* alone, and a renewal request for it has been answered.
C19_Witness ==
  /\ cfg.AllowedDomains = <<>>
  /\ tl.certManager.HostPolicy = {cfg.Domain}
  /\ TickDone /\ tick.outcome = "renewed"

====
